---- MODULE Spec2Model ----
(***************************************************************************)
(* mediaaudit: a directory walk that probes every video file with          *)
(* mediainfo under a weighted semaphore and appends one CSV row per file   *)
(* to a shared, mutex-guarded csv.Writer.                                   *)
(*                                                                         *)
(* The repository holds two variants of main: the current one (part_000,   *)
(* with getReport in report.go) and an older single-file one (part_001).   *)
(* Both are modelled; the variable `variant` says which one is running.    *)
(***************************************************************************)
EXTENDS Integers, Sequences, FiniteSets, Bags, TLC

(***************************************************************************)
(* Bounds of the model.                                                    *)
(***************************************************************************)
\* Capacity of the semaphore. The source sets 150 (part_000:22) and 200
\* (part_001:27); the model runs the same code with a small pool.
maxSem == 2

\* Longest sequence of walk-callback invocations (entries of the tree).
MaxEntries == 3

(***************************************************************************)
(* Strings are sequences of one-character strings, so that suffix          *)
(* matching is computed and not assumed.                                    *)
(***************************************************************************)
HasSuffix(s, suf) ==
    /\ Len(s) >= Len(suf)
    /\ SubSeq(s, Len(s) - Len(suf) + 1, Len(s)) = suf

\* s holds sub somewhere.
Contains(s, sub) ==
    \E k \in 1..(Len(s) - Len(sub) + 1) : SubSeq(s, k, k + Len(sub) - 1) = sub

\* The video pattern without its $ anchors: `\.mp4|\.mkv|\.avi|\.mov`.
videoFileRegexUnanchored(name) ==
    \/ Contains(name, <<".", "m", "p", "4">>)
    \/ Contains(name, <<".", "m", "k", "v">>)
    \/ Contains(name, <<".", "a", "v", "i">>)
    \/ Contains(name, <<".", "m", "o", "v">>)

\* regexp `\.mp4$|\.mkv$|\.avi$|\.mov$` (Go's $ matches at the end of text only)
videoFileRegex(name) ==
    \/ HasSuffix(name, <<".", "m", "p", "4">>)
    \/ HasSuffix(name, <<".", "m", "k", "v">>)
    \/ HasSuffix(name, <<".", "a", "v", "i">>)
    \/ HasSuffix(name, <<".", "m", "o", "v">>)

\* regexp `\.srt$|\.idx$|\.sub$`
subtitleFileRegex(name) ==
    \/ HasSuffix(name, <<".", "s", "r", "t">>)
    \/ HasSuffix(name, <<".", "i", "d", "x">>)
    \/ HasSuffix(name, <<".", "s", "u", "b">>)

(***************************************************************************)
(* The walk: the sequence of callback invocations filepath.Walk makes.     *)
(* An invocation carries err (access failure), or the entry's FileInfo.    *)
(***************************************************************************)
NameMkv == <<"m", ".", "m", "k", "v">>
NameSrt == <<"s", ".", "s", "r", "t">>
NameTxt == <<"n", ".", "t", "x", "t">>
NameDir == <<"d">>

\* info.Size() of the regular files of the model: 10 MiB.
FileSize == 10 * 1048576

\* What the mediainfo subprocess produces for a file: cmdErr (it exits
\* non-zero) and the comma-separated fields of its output line.
ProbeExit == [cmdErr |-> TRUE, fields |-> <<>>]

ProbeGood ==
    [cmdErr |-> FALSE,
     fields |-> << <<>>, <<"A", "V", "C">>, <<"1", "9", "2", "0">>, <<"1", "0", "8", "0">>,
                   <<"2", "0", "9", "7", "1", "5", "2">>, <<>>, <<>> >>]

\* What the probe subprocess may produce for a file of the model.
ProbeOutputs == {ProbeExit, ProbeGood}

\* A callback invocation: err, or the FileInfo of the entry; for a regular
\* file also what mediainfo may print for it, should the file be probed.
Entry(err, isDir, name, size, probes) ==
    [err |-> err, isDir |-> isDir, name |-> name, size |-> size, probes |-> probes]

EntrySet ==
    { Entry(TRUE, FALSE, NameDir, 0, {}),
      Entry(FALSE, TRUE, NameDir, 0, {}),
      Entry(FALSE, FALSE, NameSrt, FileSize, ProbeOutputs),
      Entry(FALSE, FALSE, NameTxt, FileSize, ProbeOutputs),
      Entry(FALSE, FALSE, NameMkv, FileSize, ProbeOutputs) }

Walks == UNION { [1..n -> EntrySet] : n \in 0..MaxEntries }

(***************************************************************************)
(* report.go: Report, ToSlice and getReport.  Decimal values are kept as   *)
(* scaled integers: SizeMB in hundredths, BitrateMbps in thousandths.      *)
(***************************************************************************)
reportHeaders == <<"Codec", "SizeMB", "BitrateType", "BitrateMbps", "Width", "Height">>

\* &Report{}: the zero value
ZeroReport ==
    [Codec |-> <<>>, SizeMB |-> 0, BitrateType |-> "", BitrateMbps |-> 0,
     Width |-> 0, Height |-> 0]

\* The same quotient truncated and not rounded.
RoundDivTruncated(x, scale, d) ==
    (x \div d) * scale + (((x % d) * scale) \div d)

\* math.Round((float64(x) / d) * scale) for x >= 0 and d = 1048576: the
\* quotient and the product are exact in float64 (d is a power of two), and
\* math.Round rounds half away from zero. Computed on the quotient and the
\* remainder so that no intermediate value leaves 32 bits.
RoundDiv(x, scale, d) ==
    (x \div d) * scale + (((x % d) * scale + (d \div 2)) \div d)

Digits == {"0", "1", "2", "3", "4", "5", "6", "7", "8", "9"}

DigitVal(c) ==
    CASE c = "0" -> 0 [] c = "1" -> 1 [] c = "2" -> 2 [] c = "3" -> 3
      [] c = "4" -> 4 [] c = "5" -> 5 [] c = "6" -> 6 [] c = "7" -> 7
      [] c = "8" -> 8 [] c = "9" -> 9

RECURSIVE DecVal(_)
DecVal(s) == IF s = <<>> THEN 0
             ELSE 10 * DecVal(SubSeq(s, 1, Len(s) - 1)) + DigitVal(s[Len(s)])

\* strconv.Atoi on an unsigned decimal field: [ok, val]
Atoi(s) ==
    IF s # <<>> /\ \A k \in 1..Len(s) : s[k] \in Digits
    THEN [ok |-> TRUE, val |-> DecVal(s)]
    ELSE [ok |-> FALSE, val |-> 0]

\* The bitrate chain tried in the order of the fields: info[0] first.
BitrateChoiceFieldOrder(info) ==
    IF info[1] # <<>> THEN [ok |-> TRUE, type |-> "Overall", str |-> info[1]]
    ELSE IF info[5] # <<>> THEN [ok |-> TRUE, type |-> "Variable", str |-> info[5]]
    ELSE IF info[6] # <<>> THEN [ok |-> TRUE, type |-> "Constant", str |-> info[6]]
    ELSE IF info[7] # <<>> THEN [ok |-> TRUE, type |-> "Nominal", str |-> info[7]]
    ELSE [ok |-> FALSE, type |-> "", str |-> <<"0">>]

\* The bitrate chain of getReport: the type and the string it selects.
BitrateChoice(info) ==
    IF info[5] # <<>> THEN [ok |-> TRUE, type |-> "Variable", str |-> info[5]]
    ELSE IF info[6] # <<>> THEN [ok |-> TRUE, type |-> "Constant", str |-> info[6]]
    ELSE IF info[7] # <<>> THEN [ok |-> TRUE, type |-> "Nominal", str |-> info[7]]
    ELSE IF info[1] # <<>> THEN [ok |-> TRUE, type |-> "Overall", str |-> info[1]]
    ELSE [ok |-> FALSE, type |-> "", str |-> <<"0">>]

\* return &Report{}, err: the empty report and which error it is
Fail(cause) == [err |-> TRUE, cause |-> cause, report |-> ZeroReport]

\* The error messages of getReport that hold the path of the file: the two
\* fmt.Errorf ones. cmd.Output's error ("exit status 1") and strconv.Atoi's
\* (strconv.Atoi: parsing "x": invalid syntax) do not.
CausesNamingPath == {"fields", "bitrate"}

\* getReport on what the mediainfo subprocess produced: cmdErr (non-zero
\* exit) and the comma-separated fields of its output (info[1] is Go's info[0]).
getReport(o) ==
    LET info == o.fields
    IN  IF o.cmdErr THEN Fail("exit")
        ELSE IF Len(info) # 7 THEN Fail("fields")
        ELSE IF ~Atoi(info[3]).ok THEN Fail("width")
        ELSE IF ~Atoi(info[4]).ok THEN Fail("height")
        ELSE IF ~BitrateChoice(info).ok THEN Fail("bitrate")
        ELSE IF ~Atoi(BitrateChoice(info).str).ok THEN Fail("atoi")
        ELSE [err |-> FALSE,
              cause |-> "",
              report |-> [Codec |-> info[2],
                          SizeMB |-> 0,
                          BitrateType |-> BitrateChoice(info).type,
                          BitrateMbps |-> RoundDiv(Atoi(BitrateChoice(info).str).val, 1000, 1048576),
                          Width |-> Atoi(info[3]).val,
                          Height |-> Atoi(info[4]).val]]

DigitChar(d) ==
    CASE d = 0 -> "0" [] d = 1 -> "1" [] d = 2 -> "2" [] d = 3 -> "3"
      [] d = 4 -> "4" [] d = 5 -> "5" [] d = 6 -> "6" [] d = 7 -> "7"
      [] d = 8 -> "8" [] d = 9 -> "9"

\* fmt.Sprintf("%d", n) for n >= 0
RECURSIVE Itoa(_)
Itoa(n) == IF n < 10 THEN <<DigitChar(n)>>
           ELSE Itoa(n \div 10) \o <<DigitChar(n % 10)>>

\* The last `width` decimal digits of n, zero-padded.
RECURSIVE Padded(_, _)
Padded(n, width) ==
    IF width = 0 THEN <<>>
    ELSE Padded(n \div 10, width - 1) \o <<DigitChar(n % 10)>>

\* fmt.Sprintf("%.2f", x), where hundredths = x * 100 >= 0
FormatSizeMB(hundredths) ==
    Itoa(hundredths \div 100) \o <<".">> \o Padded(hundredths % 100, 2)

\* fmt.Sprintf("%.3f", x), where thousandths = x * 1000 >= 0
FormatBitrateMbps(thousandths) ==
    Itoa(thousandths \div 1000) \o <<".">> \o Padded(thousandths % 1000, 3)

\* (r *Report) ToSlice
ToSlice(r) ==
    <<r.Codec, FormatSizeMB(r.SizeMB), r.BitrateType, FormatBitrateMbps(r.BitrateMbps),
      Itoa(r.Width), Itoa(r.Height)>>

(***************************************************************************)
(* State.                                                                  *)
(***************************************************************************)
VARIABLES
    variant,    \* "part_000" or "part_001": which main is running
    entries,    \* the callback invocations the walk will make, in order
    mainPc,     \* where main is
    walkIdx,    \* index of the entry the walk callback is at
    cur,        \* semaphore.Weighted: tokens acquired
    csvLock,    \* sync.Mutex: 0 when free, else the task holding it
    buf,        \* csv.Writer's bufio buffer: rows written, not yet flushed
    out,        \* the underlying output stream
    werr,       \* bufio.Writer's sticky error
    log,        \* the log package's output: a bag of lines (their order is not kept)
    task,       \* per entry index: the goroutine launched for it
    tmpl,       \* the temporary template file exists
    crashed     \* an unrecovered panic has killed the process

vars == <<variant, entries, mainPc, walkIdx, cur, csvLock, buf, out, werr, log, task, tmpl, crashed>>

\* A goroutine: where it is, its local err (and which error it is) and
\* report, whether it saw writer.Error() != nil, whether it is panicking,
\* and how many times it has run mediainfo.
NoTask ==
    [pc |-> "none", err |-> FALSE, cause |-> "", report |-> ZeroReport,
     sinkErr |-> FALSE, panic |-> FALSE, probes |-> 0]

HeaderRow == [file |-> 0, cells |-> <<"Name">> \o reportHeaders]

\* The process is running: main has not returned, and nothing has killed it.
Alive == mainPc \notin {"done", "fatal"} /\ ~crashed

Init ==
    /\ variant \in {"part_000", "part_001"}
    /\ entries \in Walks
    /\ mainPc = "start"
    /\ walkIdx = 1
    /\ cur = 0
    /\ csvLock = 0
    /\ buf = <<>>
    /\ out = <<>>
    /\ werr = FALSE
    /\ log = EmptyBag
    /\ task = [t \in 1..Len(entries) |-> NoTask]
    /\ tmpl = FALSE
    /\ crashed = FALSE

\* A log line: which log call wrote it, for which entry, and (for a probe
\* error) which error's message it holds.
Line(kind, f, cause) == [kind |-> kind, file |-> f, cause |-> cause]

\* log.Println(err.Error()) for getReport's error
LoggedProbe(f, cause) == log (+) SetToBag({Line("probe", f, cause)})

\* log.Printf / log.Fatal: one more line of that kind for entry f
Logged(kind, f) == log (+) SetToBag({Line(kind, f, "")})

\* The lines of that kind the log holds for entry f.
LinesOf(kind, f) == {l \in BagToSet(log) : l.kind = kind /\ l.file = f}

\* How many lines of that kind the log holds for entry f.
RECURSIVE CountLines(_)
CountLines(S) ==
    IF S = {} THEN 0
    ELSE LET l == CHOOSE x \in S : TRUE IN CopiesIn(l, log) + CountLines(S \ {l})

LogCount(kind, f) == CountLines(LinesOf(kind, f))

(***************************************************************************)
(* main, up to the walk.                                                   *)
(***************************************************************************)
\* ioutil.TempFile succeeds or fails; on failure log.Fatal exits the process.
CreateTemplate ==
    /\ Alive
    /\ mainPc = "start"
    /\ \E ok \in BOOLEAN :
        IF ok
        THEN /\ tmpl' = TRUE
             /\ mainPc' = "header"
             /\ log' = log
        ELSE /\ tmpl' = FALSE
             /\ mainPc' = "fatal"
             /\ log' = Logged("fatal", 0)
    /\ UNCHANGED <<variant, entries, walkIdx, cur, csvLock, buf, out, werr, task, crashed>>

\* main without the writer.Write(headers) call.
WriteHeaderSkipped ==
    /\ Alive
    /\ mainPc = "header"
    /\ mainPc' = "walk"
    /\ UNCHANGED <<variant, entries, walkIdx, cur, csvLock, buf, out, werr, log, task, tmpl, crashed>>

\* writer.Write(headers): buffered, not flushed
WriteHeader ==
    /\ Alive
    /\ mainPc = "header"
    /\ buf' = Append(buf, HeaderRow)
    /\ mainPc' = "walk"
    /\ UNCHANGED <<variant, entries, walkIdx, cur, csvLock, out, werr, log, task, tmpl, crashed>>

(***************************************************************************)
(* The walk callback (the func passed to filepath.Walk).                   *)
(***************************************************************************)
AtEntry == Alive /\ mainPc = "walk" /\ walkIdx <= Len(entries)

\* The err case returning nil instead of err: the walk goes on.
WalkErrContinue ==
    /\ AtEntry
    /\ entries[walkIdx].err
    /\ log' = Logged("access", walkIdx)
    /\ walkIdx' = walkIdx + 1
    /\ UNCHANGED <<variant, entries, mainPc, cur, csvLock, buf, out, werr, task, tmpl, crashed>>

\* case err != nil: log, return err; filepath.Walk stops and returns
WalkErr ==
    /\ AtEntry
    /\ entries[walkIdx].err
    /\ log' = Logged("access", walkIdx)
    /\ mainPc' = "barrier"
    /\ UNCHANGED <<variant, entries, walkIdx, cur, csvLock, buf, out, werr, task, tmpl, crashed>>

\* case info.IsDir(): return nil
WalkDir ==
    /\ AtEntry
    /\ ~entries[walkIdx].err
    /\ entries[walkIdx].isDir
    /\ walkIdx' = walkIdx + 1
    /\ UNCHANGED <<variant, entries, mainPc, cur, csvLock, buf, out, werr, log, task, tmpl, crashed>>

\* case subtitleFileRegex.MatchString(info.Name()): return nil
WalkSubtitle ==
    /\ AtEntry
    /\ ~entries[walkIdx].err
    /\ ~entries[walkIdx].isDir
    /\ subtitleFileRegex(entries[walkIdx].name)
    /\ walkIdx' = walkIdx + 1
    /\ UNCHANGED <<variant, entries, mainPc, cur, csvLock, buf, out, werr, log, task, tmpl, crashed>>

\* The skip case without its return nil: the callback logs and goes on to
\* sem.Acquire.
WalkOtherNoReturn ==
    /\ AtEntry
    /\ ~entries[walkIdx].err
    /\ ~entries[walkIdx].isDir
    /\ ~subtitleFileRegex(entries[walkIdx].name)
    /\ ~videoFileRegex(entries[walkIdx].name)
    /\ log' = Logged("skip", walkIdx)
    /\ mainPc' = "acquire"
    /\ UNCHANGED <<variant, entries, walkIdx, cur, csvLock, buf, out, werr, task, tmpl, crashed>>

\* case !videoFileRegex.MatchString(info.Name()): log the skip, return nil
WalkOther ==
    /\ AtEntry
    /\ ~entries[walkIdx].err
    /\ ~entries[walkIdx].isDir
    /\ ~subtitleFileRegex(entries[walkIdx].name)
    /\ ~videoFileRegex(entries[walkIdx].name)
    /\ log' = Logged("skip", walkIdx)
    /\ walkIdx' = walkIdx + 1
    /\ UNCHANGED <<variant, entries, mainPc, cur, csvLock, buf, out, werr, task, tmpl, crashed>>

\* no case of the switch matches: the callback goes on to sem.Acquire
WalkVideo ==
    /\ AtEntry
    /\ ~entries[walkIdx].err
    /\ ~entries[walkIdx].isDir
    /\ ~subtitleFileRegex(entries[walkIdx].name)
    /\ videoFileRegex(entries[walkIdx].name)
    /\ mainPc' = "acquire"
    /\ UNCHANGED <<variant, entries, walkIdx, cur, csvLock, buf, out, werr, log, task, tmpl, crashed>>

\* semaphore.Weighted.Acquire(ctx, n) returns once size - cur >= n
CanAcquire(n) == maxSem - cur >= n

\* Dispatch without the sem.Acquire before the go statement.
DispatchNoAcquire ==
    /\ Alive
    /\ mainPc = "acquire"
    /\ task' = [task EXCEPT ![walkIdx] = [NoTask EXCEPT !.pc = "probe"]]
    /\ walkIdx' = walkIdx + 1
    /\ mainPc' = "walk"
    /\ UNCHANGED <<variant, entries, cur, csvLock, buf, out, werr, log, tmpl, crashed>>

\* sem.Acquire(ctx, 1); go func(path, info) {...}(path, info); return nil
Dispatch ==
    /\ Alive
    /\ mainPc = "acquire"
    /\ CanAcquire(1)
    /\ cur' = cur + 1
    /\ task' = [task EXCEPT ![walkIdx] = [NoTask EXCEPT !.pc = "probe"]]
    /\ walkIdx' = walkIdx + 1
    /\ mainPc' = "walk"
    /\ UNCHANGED <<variant, entries, csvLock, buf, out, werr, log, tmpl, crashed>>

\* filepath.Walk returns after the last entry
WalkEnd ==
    /\ Alive
    /\ mainPc = "walk"
    /\ walkIdx > Len(entries)
    /\ mainPc' = "barrier"
    /\ UNCHANGED <<variant, entries, walkIdx, cur, csvLock, buf, out, werr, log, task, tmpl, crashed>>

(***************************************************************************)
(* The goroutine launched for entry t.                                     *)
(***************************************************************************)
Running(t) == Alive /\ t \in DOMAIN task

\* The failure path without the deferred sem.Release(1): the goroutine ends
\* holding its token.
ProbeFailedLeak(t, r) ==
    /\ log' = LoggedProbe(t, r.cause)
    /\ task' = [task EXCEPT ![t] =
                  [@ EXCEPT !.err = TRUE,
                            !.cause = r.cause,
                            !.probes = @ + 1,
                            !.report = [r.report EXCEPT !.SizeMB = RoundDiv(entries[t].size, 100, 1048576)],
                            !.pc = IF variant = "part_000" THEN "done" ELSE "lock"]]

\* A failed probe that is tried a second time.
ProbeFailedRetry(t, r) ==
    /\ log' = LoggedProbe(t, r.cause)
    /\ task' = [task EXCEPT ![t] =
                  [@ EXCEPT !.err = TRUE,
                            !.cause = r.cause,
                            !.probes = @ + 1,
                            !.report = [r.report EXCEPT !.SizeMB = RoundDiv(entries[t].size, 100, 1048576)],
                            !.pc = IF task[t].probes = 0 THEN "probe"
                                   ELSE IF variant = "part_000" THEN "release" ELSE "lock"]]

\* if err != nil { log.Println(err.Error()); return } -- part_000 returns,
\* part_001 has no return and goes on with the &Report{} getReport gave back
ProbeFailed(t, r) ==
    /\ log' = LoggedProbe(t, r.cause)
    /\ task' = [task EXCEPT ![t] =
                  [@ EXCEPT !.err = TRUE,
                            !.cause = r.cause,
                            !.probes = @ + 1,
                            !.report = [r.report EXCEPT !.SizeMB = RoundDiv(entries[t].size, 100, 1048576)],
                            !.pc = IF variant = "part_000" THEN "release" ELSE "lock"]]

\* report.SizeMB = math.Round((float64(info.Size())/1048576)*100) / 100
ProbeSucceeded(t, r) ==
    /\ log' = log
    /\ task' = [task EXCEPT ![t] =
                  [@ EXCEPT !.err = FALSE,
                            !.probes = @ + 1,
                            !.report = [r.report EXCEPT !.SizeMB = RoundDiv(entries[t].size, 100, 1048576)],
                            !.pc = "lock"]]

\* The probe error handled with log.Fatal: a failed probe ends the process.
ProbeFatal(t) ==
    /\ Running(t)
    /\ task[t].pc = "probe"
    /\ \E o \in entries[t].probes :
        LET r == getReport(o)
        IN  IF r.err
            THEN /\ log' = LoggedProbe(t, r.cause)
                 /\ task' = [task EXCEPT ![t].err = TRUE, ![t].cause = r.cause,
                                         ![t].probes = @ + 1, ![t].pc = "done"]
                 /\ mainPc' = "fatal"
            ELSE /\ ProbeSucceeded(t, r)
                 /\ mainPc' = mainPc
    /\ UNCHANGED <<variant, entries, walkIdx, cur, csvLock, buf, out, werr, tmpl, crashed>>

\* report, err := getReport(path, templateTempFile.Name()): mediainfo runs
\* once on the file
Probe(t) ==
    /\ Running(t)
    /\ task[t].pc = "probe"
    /\ \E o \in entries[t].probes :
        LET r == getReport(o)
        IN  IF r.err THEN ProbeFailed(t, r) ELSE ProbeSucceeded(t, r)
    /\ UNCHANGED <<variant, entries, mainPc, walkIdx, cur, csvLock, buf, out, werr, tmpl, crashed>>

\* sync.Mutex.Lock returns once the mutex is free
CanLock == csvLock = 0

\* Lock that does not wait for the mutex.
LockNoWait(t) ==
    /\ Running(t)
    /\ task[t].pc = "lock"
    /\ csvLock' = t
    /\ task' = [task EXCEPT ![t].pc = "write"]
    /\ UNCHANGED <<variant, entries, mainPc, walkIdx, cur, buf, out, werr, log, tmpl, crashed>>

\* csvLock.Lock(); defer csvLock.Unlock()
Lock(t) ==
    /\ Running(t)
    /\ task[t].pc = "lock"
    /\ CanLock
    /\ csvLock' = t
    /\ task' = [task EXCEPT ![t].pc = "write"]
    /\ UNCHANGED <<variant, entries, mainPc, walkIdx, cur, buf, out, werr, log, tmpl, crashed>>

\* values: info.Name() followed by report.ToSlice()
Row(t) == [file |-> t, cells |-> <<entries[t].name>> \o ToSlice(task[t].report)]

\* writer.Write(values): bufio keeps nothing once its error is set
Write(t) ==
    /\ Running(t)
    /\ task[t].pc = "write"
    /\ buf' = IF werr THEN buf ELSE Append(buf, Row(t))
    /\ task' = [task EXCEPT ![t].pc = "flush"]
    /\ UNCHANGED <<variant, entries, mainPc, walkIdx, cur, csvLock, out, werr, log, tmpl, crashed>>

\* The goroutine without its writer.Flush() call.
FlushSkipped(t) ==
    /\ Running(t)
    /\ task[t].pc = "flush"
    /\ task' = [task EXCEPT ![t].pc = "check"]
    /\ UNCHANGED <<variant, entries, mainPc, walkIdx, cur, csvLock, buf, out, werr, log, tmpl, crashed>>

\* writer.Flush(): a no-op once the error is set; otherwise the buffer goes
\* to the stream, or the stream fails after taking k rows of it
Flush(t) ==
    /\ Running(t)
    /\ task[t].pc = "flush"
    /\ IF werr
       THEN /\ UNCHANGED <<buf, out, werr>>
            /\ task' = [task EXCEPT ![t].pc = "check"]
       ELSE \/ /\ out' = out \o buf
               /\ buf' = <<>>
               /\ werr' = FALSE
               /\ task' = [task EXCEPT ![t].pc = "check"]
            \/ /\ buf # <<>>
               /\ \E k \in 0..(Len(buf) - 1) :
                    /\ out' = out \o SubSeq(buf, 1, k)
                    /\ buf' = SubSeq(buf, k + 1, Len(buf))
               /\ werr' = TRUE
               /\ task' = [task EXCEPT ![t].pc = "check"]
    /\ UNCHANGED <<variant, entries, mainPc, walkIdx, cur, csvLock, log, tmpl, crashed>>

\* if writer.Error() != nil { log.Printf(..., info.Name(), err.Error()) }
\* err is the goroutine's getReport error: when it is nil, err.Error() is a
\* nil dereference and the goroutine panics before anything is logged
CheckError(t) ==
    /\ Running(t)
    /\ task[t].pc = "check"
    /\ IF ~werr
       THEN /\ log' = log
            /\ task' = [task EXCEPT ![t].pc = "unlock"]
       ELSE IF task[t].err
       THEN /\ log' = Logged("sink", t)
            /\ task' = [task EXCEPT ![t].pc = "unlock", ![t].sinkErr = TRUE]
       ELSE /\ log' = log
            /\ task' = [task EXCEPT ![t].pc = "unlock", ![t].sinkErr = TRUE, ![t].panic = TRUE]
    /\ UNCHANGED <<variant, entries, mainPc, walkIdx, cur, csvLock, buf, out, werr, tmpl, crashed>>

\* deferred csvLock.Unlock() (runs on return and on panic)
Unlock(t) ==
    /\ Running(t)
    /\ task[t].pc = "unlock"
    /\ csvLock' = 0
    /\ task' = [task EXCEPT ![t].pc = "release"]
    /\ UNCHANGED <<variant, entries, mainPc, walkIdx, cur, buf, out, werr, log, tmpl, crashed>>

\* deferred sem.Release(1) (runs on return and on panic); a panicking
\* goroutine then reaches the runtime's fatal panic
Release(t) ==
    /\ Running(t)
    /\ task[t].pc = "release"
    /\ cur' = cur - 1
    /\ task' = [task EXCEPT ![t].pc = IF task[t].panic THEN "fatal" ELSE "done"]
    /\ UNCHANGED <<variant, entries, mainPc, walkIdx, csvLock, buf, out, werr, log, tmpl, crashed>>

\* the unrecovered panic kills the process: main's deferred calls do not run
Crash(t) ==
    /\ Running(t)
    /\ task[t].pc = "fatal"
    /\ crashed' = TRUE
    /\ log' = Logged("panic", t)
    /\ UNCHANGED <<variant, entries, mainPc, walkIdx, cur, csvLock, buf, out, werr, task, tmpl>>

(***************************************************************************)
(* main, after the walk.                                                   *)
(***************************************************************************)
\* A final acquire that does not wait for the goroutines.
BarrierNoWait ==
    /\ Alive
    /\ mainPc = "barrier"
    /\ cur' = cur
    /\ mainPc' = "return"
    /\ UNCHANGED <<variant, entries, walkIdx, csvLock, buf, out, werr, log, task, tmpl, crashed>>

\* sem.Acquire(context.TODO(), maxSem)
Barrier ==
    /\ Alive
    /\ mainPc = "barrier"
    /\ CanAcquire(maxSem)
    /\ cur' = cur + maxSem
    /\ mainPc' = "return"
    /\ UNCHANGED <<variant, entries, walkIdx, csvLock, buf, out, werr, log, task, tmpl, crashed>>

\* main returns: the deferred os.Remove runs and the process exits
Exit ==
    /\ Alive
    /\ mainPc = "return"
    /\ tmpl' = FALSE
    /\ mainPc' = "done"
    /\ UNCHANGED <<variant, entries, walkIdx, cur, csvLock, buf, out, werr, log, task, crashed>>

Next ==
    \/ CreateTemplate
    \/ WriteHeader
    \/ WalkErr
    \/ WalkDir
    \/ WalkSubtitle
    \/ WalkOther
    \/ WalkVideo
    \/ Dispatch
    \/ WalkEnd
    \/ \E t \in DOMAIN task : Probe(t)
    \/ \E t \in DOMAIN task : Lock(t)
    \/ \E t \in DOMAIN task : Write(t)
    \/ \E t \in DOMAIN task : Flush(t)
    \/ \E t \in DOMAIN task : CheckError(t)
    \/ \E t \in DOMAIN task : Unlock(t)
    \/ \E t \in DOMAIN task : Release(t)
    \/ \E t \in DOMAIN task : Crash(t)
    \/ Barrier
    \/ Exit

Spec == Init /\ [][Next]_vars

(***************************************************************************)
(* Properties.                                                             *)
(***************************************************************************)
Tasks == DOMAIN task

\* The goroutines that were launched.
Launched == {t \in Tasks : task[t].pc # "none"}

\* The goroutines that were launched and have not yet run sem.Release(1).
InFlight == {t \in Tasks : task[t].pc \in {"probe", "lock", "write", "flush", "check", "unlock", "release"}}

\* The entries the switch of the callback lets through to sem.Acquire.
IsVideo(e) == ~e.err /\ ~e.isDir /\ ~subtitleFileRegex(e.name) /\ videoFileRegex(e.name)

\* How many rows of entry t a sequence of rows holds.
RECURSIVE RowCount(_, _)
RowCount(rows, t) ==
    IF rows = <<>> THEN 0
    ELSE (IF rows[1].file = t THEN 1 ELSE 0) + RowCount(Tail(rows), t)

\* C1: in every reachable state at most maxSem goroutines have been launched
\* and have not yet released their token, also when more than maxSem files
\* are eligible.
C1_ConcurrencyBounded == Cardinality(InFlight) <= maxSem

\* The pool is saturated while one more eligible file waits for a token.
C1_Witness ==
    /\ Cardinality(InFlight) = maxSem
    /\ mainPc = "acquire"
    /\ Cardinality({k \in 1..Len(entries) : IsVideo(entries[k])}) > maxSem

\* C2: once the goroutine of an eligible file has completed, exactly one of
\* the two has happened: one row was written for it, or one error was logged
\* for it; never both, never neither.
ErrorsLogged(t) == LogCount("probe", t) + LogCount("sink", t)

RowsWritten(t) == RowCount(out \o buf, t)

C2_RowXorError ==
    \A t \in Tasks :
        task[t].pc = "done" =>
            \/ RowsWritten(t) = 1 /\ ErrorsLogged(t) = 0
            \/ RowsWritten(t) = 0 /\ ErrorsLogged(t) = 1

\* Entry t's row is in the underlying output stream.
RowInOutput(t) == RowCount(out, t) >= 1

\* C3: main does not return before every launched goroutine has released its
\* token, and when the final Acquire(maxSem) has succeeded the row of every
\* successfully probed file is in the output stream.
C3_BarrierThenRowsFlushed ==
    mainPc \in {"return", "done"} =>
        /\ InFlight = {}
        /\ \A t \in Launched : ~task[t].err => RowInOutput(t)

\* C4: at most one goroutine at a time is between csvLock.Lock() and the
\* deferred csvLock.Unlock(), where writer.Write and writer.Flush are called.
InWriteSection == {t \in Tasks : task[t].pc \in {"write", "flush", "check", "unlock"}}

C4_WriterMutualExclusion ==
    /\ Cardinality(InWriteSection) <= 1
    /\ \A t \in InWriteSection : csvLock = t

\* One goroutine is about to flush while another waits for the lock.
C4_Witness ==
    \E t, u \in Tasks : task[t].pc = "flush" /\ task[u].pc = "lock"

\* C5: in the output stream the header row precedes every data row.
C5_HeaderFirst ==
    \A k \in 1..Len(out) :
        out[k].file # 0 => \E j \in 1..(k - 1) : out[j] = HeaderRow

\* A data row has reached the output stream.
C5_Witness == \E k \in 1..Len(out) : out[k].file # 0

\* The original statement of C6: in every reachable state the free tokens
\* plus the tokens held by in-flight goroutines make maxSem.
C6_FreePlusHeldIsMaxSem == (maxSem - cur) + Cardinality(InFlight) = maxSem

\* C6 (amended): exactly maxSem tokens exist. Until main's final
\* Acquire(maxSem) the free tokens plus the tokens held by in-flight
\* goroutines make maxSem; from the final acquire on main holds all maxSem
\* tokens and no goroutine is in flight. A goroutine holds one token from its
\* launch to its last step, whether its probe succeeded or failed.
C6_TokensConserved ==
    /\ cur \in 0..maxSem
    /\ mainPc \notin {"return", "done"} => (maxSem - cur) + Cardinality(InFlight) = maxSem
    /\ mainPc \in {"return", "done"} => cur = maxSem /\ InFlight = {}

\* A failed and a successful goroutine have both given their token back and
\* main has taken the whole pool.
C6_Witness ==
    /\ mainPc = "return"
    /\ \E t, u \in Tasks :
        /\ task[t].pc = "done" /\ task[t].err
        /\ task[u].pc = "done" /\ ~task[u].err

\* The eligible entries the walk reaches: those before the first access error.
Reached(k) == \A j \in 1..k : ~entries[j].err

\* A step in which goroutine t's probe fails.
ProbeFailStep(t) == task[t].pc = "probe" /\ task'[t].pc # "probe" /\ task'[t].err

\* A probe failure touches nothing but its own goroutine and the log.
C7_Frame ==
    \A t \in Tasks :
        ProbeFailStep(t) =>
            /\ \A u \in Tasks \ {t} : task'[u] = task[u]
            /\ UNCHANGED <<mainPc, walkIdx, cur, csvLock, buf, out, werr, tmpl, crashed>>

\* When main has returned without a sink error, every eligible file the walk
\* reached was dispatched and has completed, and those whose own probe
\* succeeded have their row in the output, whatever happened to the others.
C7_Final ==
    (mainPc = "done" /\ ~werr) =>
        \A k \in 1..Len(entries) :
            (Reached(k) /\ IsVideo(entries[k])) =>
                /\ task[k].pc = "done"
                /\ ~task[k].err => RowInOutput(k)

\* C7: a probe failure is isolated to its own goroutine: the failing step
\* changes nothing of the walk, the pool, the lock, the writer or the other
\* goroutines, and every other eligible file is still dispatched, probed and,
\* if its own probe succeeds, written to the output.
C7_ProbeFailureIsolated == []C7_Final /\ [][C7_Frame]_vars

\* The run is over; one file's probe failed and a file that comes later in
\* the walk has its row in the output.
C7_Witness ==
    /\ mainPc = "done"
    /\ \E t, u \in Tasks :
        /\ t < u
        /\ task[t].err
        /\ ~task[u].err /\ RowInOutput(u)

\* C8: a write/flush error seen by a goroutine is logged and does not abort
\* the scan: the goroutine does not panic and the process keeps running.
C8_SinkErrorLoggedScanContinues ==
    /\ ~crashed
    /\ \A t \in Tasks :
        task[t].sinkErr => LogCount("sink", t) = 1 /\ ~task[t].panic

\* Goroutine t has written its row and released the output lock.
WroteAndUnlocked(t) ==
    /\ task[t].pc \in {"release", "done"}
    /\ variant = "part_001" \/ ~task[t].err

\* A goroutine that released the lock without a sink error has its row, and
\* the header written before it, in the output stream.
C9_RowFlushedAtUnlock ==
    \A t \in Tasks :
        (WroteAndUnlocked(t) /\ ~task[t].sinkErr) =>
            /\ RowInOutput(t)
            /\ out[1] = HeaderRow

FirstErr ==
    IF \E k \in 1..Len(entries) : entries[k].err
    THEN CHOOSE k \in 1..Len(entries) : entries[k].err /\ Reached(k - 1)
    ELSE Len(entries) + 1

\* C10: when the callback is invoked with an access error, the error is
\* logged and the walk halts: the walk never moves past that entry, no later
\* entry is classified and no goroutine is launched for one.
C10_WalkHaltsOnAccessError ==
    /\ walkIdx <= FirstErr
    /\ \A t \in Tasks : t >= FirstErr => task[t].pc = "none"
    /\ \A k \in 1..Len(entries) : k > FirstErr => LogCount("skip", k) = 0 /\ LogCount("access", k) = 0
    /\ (FirstErr <= Len(entries) /\ mainPc \in {"barrier", "return", "done"}) =>
            walkIdx = FirstErr /\ LogCount("access", FirstErr) = 1

\* The walk halted on an access error with a video file still ahead, after
\* having dispatched an earlier one; main has returned.
C10_Witness ==
    /\ mainPc = "done"
    /\ FirstErr = 2
    /\ Len(entries) > 2
    /\ IsVideo(entries[3])
    /\ task[1].pc = "done"

\* C11: classification comes before token acquisition: the callback reaches
\* sem.Acquire only for a Video-classified file; a directory, a subtitle
\* file or any other file never gets a goroutine or a probe, and the tokens
\* taken are exactly those of the in-flight goroutines of video files.
C11_OnlyVideoTakesToken ==
    /\ mainPc = "acquire" => IsVideo(entries[walkIdx])
    /\ \A t \in Tasks : ~IsVideo(entries[t]) => task[t].pc = "none" /\ task[t].probes = 0
    /\ mainPc \notin {"return", "done"} =>
            cur = Cardinality({t \in InFlight : IsVideo(entries[t])})

\* The walk has passed a directory, a subtitle file and another file and is
\* over: no token was taken.
C11_Witness ==
    /\ mainPc = "barrier"
    /\ walkIdx > Len(entries)
    /\ cur = 0
    /\ \E i, j, k \in 1..Len(entries) :
        /\ entries[i].isDir
        /\ ~entries[j].isDir /\ subtitleFileRegex(entries[j].name)
        /\ ~entries[k].isDir /\ ~subtitleFileRegex(entries[k].name) /\ ~videoFileRegex(entries[k].name)

\* The walk met nothing but directories and subtitle files, and at least one
\* subtitle file.
OnlySubtitles ==
    /\ \A k \in 1..Len(entries) :
        ~entries[k].err /\ (entries[k].isDir \/ subtitleFileRegex(entries[k].name))
    /\ \E k \in 1..Len(entries) : ~entries[k].isDir

\* C12: when the root holds only subtitle files, the run ends with exactly
\* the header row in the output stream, no data row, and nothing logged.
C12_SubtitlesOnlyHeaderOnly ==
    (mainPc = "done" /\ OnlySubtitles) =>
        /\ out = <<HeaderRow>>
        /\ log = EmptyBag

\* The lines of getReport's error the log holds for entry t that name it.
ProbeLinesNaming(t) == {l \in LinesOf("probe", t) : l.cause \in CausesNamingPath}

\* The root holds one file only, entry t.
OnlyFile(t) == \A k \in 1..Len(entries) : k # t => ~entries[k].err /\ entries[k].isDir

\* C13: when the mediainfo subprocess of an eligible file exits non-zero,
\* exactly one line is logged for the file and it names the file, no row is
\* written for it, and for a root holding only that file the output stream
\* ends as the header row only.
C13_ProbeExitOneLineNoRow ==
    \A t \in Tasks :
        (task[t].pc = "done" /\ task[t].cause = "exit") =>
            /\ ErrorsLogged(t) = 1
            /\ CountLines(ProbeLinesNaming(t)) = 1
            /\ RowsWritten(t) = 0
            /\ (mainPc = "done" /\ OnlyFile(t)) => out = <<HeaderRow>>

(***************************************************************************)
(* Runs over chosen inputs: the same program started on a root directory   *)
(* that holds one file under study, drawn from a wider set of names or     *)
(* mediainfo outputs than Walks has.                                        *)
(***************************************************************************)
\* The state after construction, for a walk drawn from ws.
InitOver(ws) ==
    /\ variant \in {"part_000", "part_001"}
    /\ entries \in ws
    /\ mainPc = "start"
    /\ walkIdx = 1
    /\ cur = 0
    /\ csvLock = 0
    /\ buf = <<>>
    /\ out = <<>>
    /\ werr = FALSE
    /\ log = EmptyBag
    /\ task = [t \in 1..Len(entries) |-> NoTask]
    /\ tmpl = FALSE
    /\ crashed = FALSE

\* filepath.Walk calls the callback for the root directory first.
Root == Entry(FALSE, TRUE, NameDir, 0, {})

\* What else the root may hold next to the file under study.
Others == {e \in EntrySet : ~IsVideo(e)}

\* The walks of a root that holds one file of fs and at most one more entry.
OneFileWalks(fs) ==
    {<<Root, f>> : f \in fs} \cup {<<Root, f, e>> : f \in fs, e \in Others}

\* The decimal strings mediainfo prints for a bitrate in the runs below.
Str1M == <<"1", "0", "4", "8", "5", "7", "6">>
Str2M == <<"2", "0", "9", "7", "1", "5", "2">>
Str3M == <<"3", "1", "4", "5", "7", "2", "8">>
Str4M == <<"4", "1", "9", "4", "3", "0", "4">>
StrX == <<"x">>

\* A seven-field line: info[0], "AVC", "1920", "1080", info[4], info[5], info[6].
ProbeLine(f0, f4, f5, f6) ==
    [cmdErr |-> FALSE,
     fields |-> <<f0, <<"A", "V", "C">>, <<"1", "9", "2", "0">>, <<"1", "0", "8", "0">>, f4, f5, f6>>]

\* Each bitrate field empty, a number of its own, or (but for info[4]) not a
\* number.
BitrateLines ==
    { ProbeLine(f0, f4, f5, f6) :
        f0 \in {<<>>, Str1M, StrX}, f4 \in {<<>>, Str2M},
        f5 \in {<<>>, Str3M, StrX}, f6 \in {<<>>, Str4M, StrX} }

BitrateFiles == { Entry(FALSE, FALSE, NameMkv, FileSize, {o}) : o \in BitrateLines }

InitBitrate == InitOver(OneFileWalks(BitrateFiles))

SpecBitrate == InitBitrate /\ [][Next]_vars

\* The line mediainfo printed for entry t, when only one is possible.
ProbedFields(t) == (CHOOSE o \in entries[t].probes : TRUE).fields

\* BitrateMbps, in thousandths, of the numbers above.
MbpsOf(s) ==
    CASE s = Str1M -> 1000 [] s = Str2M -> 2000 [] s = Str3M -> 3000 [] s = Str4M -> 4000

\* getReport gave entry t a record of that type with the bitrate of field s
\* (s being a number).
Gives(t, type, s) ==
    s # StrX =>
        /\ ~task[t].err
        /\ task[t].report.BitrateType = type
        /\ task[t].report.BitrateMbps = MbpsOf(s)

\* C14: for a seven-field line the bitrate follows the first-match chain:
\* info[4] non-empty gives Variable with the bitrate of info[4], whatever
\* info[5], info[6] and info[0] hold; else info[5] gives Constant; else
\* info[6] gives Nominal; else info[0] gives Overall; and with all four empty
\* getReport returns an error and no record.
C14_BitrateFirstMatch ==
    \A t \in Tasks :
        task[t].probes = 1 =>
            LET info == ProbedFields(t)
            IN  /\ info[5] # <<>> => Gives(t, "Variable", info[5])
                /\ (info[5] = <<>> /\ info[6] # <<>>) => Gives(t, "Constant", info[6])
                /\ (info[5] = <<>> /\ info[6] = <<>> /\ info[7] # <<>>) => Gives(t, "Nominal", info[7])
                /\ (info[5] = <<>> /\ info[6] = <<>> /\ info[7] = <<>> /\ info[1] # <<>>) =>
                        Gives(t, "Overall", info[1])
                /\ (info[5] = <<>> /\ info[6] = <<>> /\ info[7] = <<>> /\ info[1] = <<>>) =>
                        /\ task[t].err
                        /\ task[t].cause = "bitrate"
                        /\ task[t].report.BitrateType = ""
                        /\ LogCount("probe", t) = 1

\* A file whose four bitrate fields are all set was probed: Variable.
C14_Witness ==
    \E t \in Tasks :
        /\ task[t].pc = "done"
        /\ ProbedFields(t)[1] = Str1M /\ ProbedFields(t)[5] = Str2M
        /\ ProbedFields(t)[6] = Str3M /\ ProbedFields(t)[7] = Str4M
        /\ task[t].report.BitrateType = "Variable"
        /\ task[t].report.BitrateMbps = 2000

\* File names and the class the statement of C15 gives each: the seven
\* extensions, other case, a longer extension, an extension in the middle of
\* the name, no dot, and both kinds of extension in one name.
ClassifiedNames ==
    {
      [name |-> <<"a", ".", "m", "p", "4">>, class |-> "Video"],
      [name |-> <<"a", ".", "m", "k", "v">>, class |-> "Video"],
      [name |-> <<"a", ".", "a", "v", "i">>, class |-> "Video"],
      [name |-> <<"a", ".", "m", "o", "v">>, class |-> "Video"],
      [name |-> <<"a", ".", "s", "r", "t">>, class |-> "Subtitle"],
      [name |-> <<"a", ".", "i", "d", "x">>, class |-> "Subtitle"],
      [name |-> <<"a", ".", "s", "u", "b">>, class |-> "Subtitle"],
      [name |-> <<"a", ".", "t", "x", "t">>, class |-> "Other"],
      [name |-> <<"a", ".", "M", "P", "4">>, class |-> "Other"],
      [name |-> <<"a", ".", "m", "p", "4", "x">>, class |-> "Other"],
      [name |-> <<"a", ".", "m", "p", "4", ".", "t", "x", "t">>, class |-> "Other"],
      [name |-> <<"a", "m", "p", "4">>, class |-> "Other"],
      [name |-> <<"s", "r", "t">>, class |-> "Other"],
      [name |-> <<"a", ".", "m", "k", "v", ".", "s", "r", "t">>, class |-> "Subtitle"],
      [name |-> <<"a", ".", "s", "r", "t", ".", "m", "k", "v">>, class |-> "Video"],
      [name |-> <<".", "m", "o", "v">>, class |-> "Video"],
      [name |-> <<".", "s", "u", "b">>, class |-> "Subtitle"] }

NamedFiles == { Entry(FALSE, FALSE, c.name, FileSize, ProbeOutputs) : c \in ClassifiedNames }

InitNames == InitOver(OneFileWalks(NamedFiles))

SpecNames == InitNames /\ [][Next]_vars

\* The class the statement gives entry k's name.
ClassOf(k) == (CHOOSE c \in ClassifiedNames : c.name = entries[k].name).class

\* The file under study is the entry after the root.
Studied == 2

\* C15: a name ending in .srt, .idx or .sub is a subtitle file, checked
\* first and skipped with no notice; otherwise a name ending in .mp4, .mkv,
\* .avi or .mov is a video file and is dispatched; any other name is skipped
\* with one "Skipping non-video file" notice.
C15_ClassifiedBySuffix ==
    walkIdx > Studied =>
        /\ ClassOf(Studied) = "Subtitle" =>
                task[Studied].pc = "none" /\ LogCount("skip", Studied) = 0
        /\ ClassOf(Studied) = "Video" =>
                task[Studied].pc # "none" /\ LogCount("skip", Studied) = 0
        /\ ClassOf(Studied) = "Other" =>
                task[Studied].pc = "none" /\ LogCount("skip", Studied) = 1

\* The walk has passed a file with both kinds of extension in its name that
\* ends in a video extension: it was dispatched.
C15_Witness ==
    /\ walkIdx > Studied
    /\ entries[Studied].name = <<"a", ".", "s", "r", "t", ".", "m", "k", "v">>
    /\ task[Studied].pc = "done"

\* info.Size() in the runs below: zero, the two sides of the first rounding
\* point (0.005 MB is 5242.88 bytes), a size that is exactly halfway between
\* two hundredths (131072 bytes are 0.125 MB), and around one MB and beyond.
Sizes == {0, 5242, 5243, 131072, 1048575, 1048576, 10485760}

Str0 == <<"0">>

\* A first file whose bitrate mediainfo gives as 1048576, a second one whose
\* bitrate it gives as 0.
FirstFiles == { Entry(FALSE, FALSE, NameMkv, s, {ProbeLine(<<>>, Str1M, <<>>, <<>>)}) : s \in Sizes }

SecondFiles == { Entry(FALSE, FALSE, NameMkv, s, {ProbeLine(<<>>, Str0, <<>>, <<>>)}) : s \in Sizes }

\* The walks of a root that holds two such files, or one and another entry.
SizeWalks ==
    {<<Root, f, g>> : f \in FirstFiles, g \in SecondFiles}
        \cup {<<Root, f, e>> : f \in FirstFiles, e \in Others}

InitSizes == InitOver(SizeWalks)

SpecSizes == InitSizes /\ [][Next]_vars

\* round(bytes / 1048576 * 100), half away from zero, of the sizes above.
HundredthsOf(bytes) ==
    CASE bytes = 0 -> 0 [] bytes = 5242 -> 0 [] bytes = 5243 -> 1
      [] bytes = 131072 -> 13 [] bytes = 1048575 -> 100 [] bytes = 1048576 -> 100
      [] bytes = 10485760 -> 1000

\* The data rows written so far, flushed or not.
DataRows == {r \in {(out \o buf)[k] : k \in 1..Len(out \o buf)} : r.file # 0}

\* C16: SizeMB is round(bytes / 1048576 * 100) / 100 and is monotonic
\* non-decreasing in bytes; 1048576 bytes are written as 1.00, a bitrate of
\* 1048576 as 1.000 and a bitrate of 0 as 0.000.
C16_SizeAndBitrateRounding ==
    /\ \A t \in Tasks :
        task[t].probes = 1 => task[t].report.SizeMB = HundredthsOf(entries[t].size)
    /\ \A t, u \in Tasks :
        (task[t].probes = 1 /\ task[u].probes = 1 /\ entries[t].size <= entries[u].size) =>
            task[t].report.SizeMB <= task[u].report.SizeMB
    /\ \A r \in DataRows :
        /\ entries[r.file].size = 1048576 => r.cells[3] = <<"1", ".", "0", "0">>
        /\ ProbedFields(r.file)[5] = Str1M => r.cells[5] = <<"1", ".", "0", "0", "0">>
        /\ ProbedFields(r.file)[5] = Str0 => r.cells[5] = <<"0", ".", "0", "0", "0">>

\* A file of 1048576 bytes with a bitrate of 1048576 and a smaller file with
\* a bitrate of 0 both have their row in the output.
C16_Witness ==
    \E r, q \in DataRows :
        /\ RowInOutput(r.file) /\ RowInOutput(q.file)
        /\ entries[r.file].size = 1048576 /\ ProbedFields(r.file)[5] = Str1M
        /\ entries[q.file].size = 5243 /\ ProbedFields(q.file)[5] = Str0
        /\ q.cells[3] = <<"0", ".", "0", "1">>

\* In every state: no goroutine has run mediainfo more than once, one that
\* is past getReport has run it exactly once, and a goroutine exists only
\* for an entry the walk has left behind.
C17_Counted ==
    \A t \in Tasks :
        /\ task[t].probes <= 1
        /\ task[t].pc \in {"none", "probe"} => task[t].probes = 0
        /\ task[t].pc \in {"lock", "write", "flush", "check", "unlock", "release", "done", "fatal"} =>
                task[t].probes = 1
        /\ task[t].pc # "none" => t < walkIdx

\* In every step: the walk does not go back, and a goroutine that exists is
\* not started again, does not go back to getReport and keeps its count.
C17_NoRestart ==
    /\ walkIdx' >= walkIdx
    /\ \A t \in Tasks :
        task[t].pc # "none" =>
            /\ task'[t].pc # "none"
            /\ task'[t].probes >= task[t].probes
            /\ task'[t].pc = "probe" => task[t].pc = "probe" /\ task'[t] = task[t]

\* C17: over a whole run mediainfo is invoked at most once for each file:
\* every goroutine calls getReport exactly once, no file gets a second
\* goroutine, and a failed probe is not tried again.
C17_ProbedAtMostOnce == []C17_Counted /\ [][C17_NoRestart]_vars

\* The run is over with more eligible files than tokens, one probe failed
\* and one succeeded: each file was probed once.
C17_Witness ==
    /\ mainPc = "done"
    /\ Cardinality(Launched) > maxSem
    /\ \A t \in Launched : task[t].pc = "done" /\ task[t].probes = 1
    /\ \E t, u \in Launched : task[t].err /\ ~task[u].err

(***************************************************************************)
(* Scheduling: the Go scheduler keeps running every goroutine that can     *)
(* take a step, main included, and the runtime ends the process once a     *)
(* panicking goroutine has run its deferred calls.                          *)
(***************************************************************************)
\* A step of the main goroutine.
MainStep ==
    \/ CreateTemplate
    \/ WriteHeader
    \/ WalkErr
    \/ WalkDir
    \/ WalkSubtitle
    \/ WalkOther
    \/ WalkVideo
    \/ Dispatch
    \/ WalkEnd
    \/ Barrier
    \/ Exit

\* A step of the goroutine launched for entry t.
TaskStep(t) ==
    \/ Probe(t)
    \/ Lock(t)
    \/ Write(t)
    \/ Flush(t)
    \/ CheckError(t)
    \/ Unlock(t)
    \/ Release(t)
    \/ Crash(t)

FairSpec ==
    /\ Spec
    /\ WF_vars(MainStep)
    /\ \A t \in 1..MaxEntries : WF_vars(TaskStep(t))

\* The walker is inside the callback of filepath.Walk or between two calls.
Walking == Alive /\ mainPc \in {"walk", "acquire"}

\* The walker is suspended: it can take no step.
WalkerBlocked == Walking /\ ~ENABLED MainStep

\* Whenever the walker is suspended it is at sem.Acquire(1) with the pool
\* saturated: exactly maxSem goroutines are in flight, no goroutine exists
\* yet for the pending file, and the lock is free or held by a goroutine.
C18_BlockedOnlyWhenSaturated ==
    WalkerBlocked =>
        /\ mainPc = "acquire"
        /\ ~CanAcquire(1)
        /\ Cardinality(InFlight) = maxSem
        /\ task[walkIdx].pc = "none"
        /\ csvLock \in {0} \cup InFlight

\* C18: the walker suspends only at token acquisition and only when the pool
\* is saturated, holding neither a token for the pending file nor the output
\* lock; once a goroutine releases its token the walker goes on, so every
\* eligible file the walk reaches is eventually dispatched.
C18_WalkerEventuallyDispatches ==
    /\ []C18_BlockedOnlyWhenSaturated
    /\ (mainPc = "acquire") ~> (mainPc = "walk")

\* The deferred os.Remove has run: the template was created and is gone.
TemplateRemoved == ~tmpl /\ mainPc \notin {"start", "fatal"}

\* C19: the template file is never removed while a goroutine is in flight:
\* while one is, the file exists, so every getReport finds it; and once the
\* file has been removed main has returned from the final Acquire(maxSem),
\* holding all the tokens, with no goroutine in flight.
C19_TemplateOutlivesProbes ==
    /\ InFlight # {} => tmpl
    /\ \A t \in Tasks : task[t].probes > 0 => mainPc \notin {"start", "fatal"}
    /\ TemplateRemoved =>
        /\ mainPc = "done"
        /\ cur = maxSem
        /\ InFlight = {}

\* The template has been removed after a run that kept the pool saturated
\* with a file waiting: every goroutine had finished before.
C19_Witness ==
    /\ TemplateRemoved
    /\ Cardinality(Launched) > maxSem
    /\ \A t \in Launched : task[t].pc = "done"

\* The walk was halted by an access error.
WalkHalted == FirstErr <= Len(entries) /\ walkIdx = FirstErr /\ LogCount("access", FirstErr) = 1

\* C20: when the walk halts on an access error the goroutines launched
\* before it are not abandoned: main still waits in the final
\* Acquire(maxSem), so when main returns every launched goroutine has run to
\* completion and the row of every successfully probed file is in the
\* output stream.
C20_LaunchedCompleteAfterWalkError ==
    (WalkHalted /\ mainPc \in {"return", "done"}) =>
        \A t \in Launched :
            /\ task[t].pc = "done"
            /\ ~task[t].err => RowInOutput(t)

=============================================================================
